---- MODULE Spec2Model ----
(***************************************************************************)
(* A model of package gobag (src/gobag.go): the tokenizer Fields and the   *)
(* unquoter UnquoteString, each as a state machine that consumes one code  *)
(* point of its input per step and then returns.                           *)
(*                                                                         *)
(* A string is a sequence of code points; a code point is a one-character  *)
(* TLA+ string.  A Go slice result is a record [isNil, elems], so that the *)
(* nil slice and the empty slice stay distinct.                            *)
(***************************************************************************)
EXTENDS Integers, Sequences, FiniteSets, TLC

VARIABLES
    s, sep,                 \* Fields: the arguments
    pos,                    \* Fields: index of the next code point of the range loop
    sb, fields, balance,    \* Fields: locals (gobag.go:14-16)
    inSingle, inDouble, isEscaped,   \* Fields: locals (gobag.go:17)
    fpc,                    \* Fields: "idle", "loop" or "done"
    fres, ferr,             \* Fields: the returned slice and error
    us,                     \* UnquoteString: the argument
    upos,                   \* UnquoteString: index of the next code point
    usb, inQuote, escape,   \* UnquoteString: locals (gobag.go:95-98)
    upc,                    \* UnquoteString: "idle", "loop" or "done"
    ures, uerr,             \* UnquoteString: the returned string and error
    elems,                  \* UnquoteStrings: the argument
    eidx,                   \* UnquoteStrings: index of the next element of the range loop
    unquoted,               \* UnquoteStrings: local (gobag.go:81)
    spc,                    \* UnquoteStrings: "idle", "loop" or "done"
    sres, serr,             \* UnquoteStrings: the returned slice and error
    ds,                     \* Deduplicate: the argument
    di,                     \* Deduplicate: index of the next element of the range loop
    seen, result,           \* Deduplicate: locals (gobag.go:146-147)
    dpc,                    \* Deduplicate: "idle", "check", "loop" or "done"
    dres,                   \* Deduplicate: the returned slice
    calls,                  \* concurrent callers: the call each caller makes
    locals,                 \* concurrent callers: the locals of the calls
    cpos,                   \* concurrent callers: index of each call's next code point
    cpc,                    \* concurrent callers: "loop" or "done" for each call
    cres                    \* concurrent callers: what each call returned

fvars == <<s, sep, pos, sb, fields, balance, inSingle, inDouble, isEscaped,
           fpc, fres, ferr>>
uvars == <<us, upos, usb, inQuote, escape, upc, ures, uerr>>
svars == <<elems, eidx, unquoted, spc, sres, serr>>
dvars == <<ds, di, seen, result, dpc, dres>>
cvars == <<calls, locals, cpos, cpc, cres>>
vars == <<fvars, uvars, svars, dvars, cvars>>

----------------------------------------------------------------------------
(* Bounds of the model *)

\* longest input of Fields
FMaxLen == 4
\* longest input of UnquoteString
UMaxLen == 6

\* the code points the inputs of Fields are drawn from
FChars == {"a", ",", "\\", "\"", "'", "(", ")"}
\* the separators Fields is called with
FSeps == {",", "\\", "\"", "'", "(", ")"}
\* the code points the inputs of UnquoteString are drawn from
UChars == {"a", "\"", "\\"}

Strings(chars, n) == UNION {[1..k -> chars] : k \in 0..n}

----------------------------------------------------------------------------
(* Errors and results *)

NoError == "nil"
ErrDanglingEscape == "dangling escape character at end of string"
ErrTooManyClosing == "too many closing parentheses"
ErrUnbalancedParens == "unbalanced parentheses in string"
ErrUnbalancedSingle == "unbalanced single quote in string"
ErrUnbalancedDouble == "unbalanced double quote in string"
ErrEscapeOutside == "escape character found outside a quote"
ErrUnterminated == "unterminated double quote"
\* the error variable of a call that has not returned
Pending == "pending"

NilSlice == [isNil |-> TRUE, elems |-> <<>>]
Slice(es) == [isNil |-> FALSE, elems |-> es]

----------------------------------------------------------------------------
(* Fields: the scan state and one iteration of the range loop *)

\* the locals of Fields after their declarations
FieldsStart ==
    [sb |-> <<>>, fields |-> <<>>, balance |-> 0,
     inSingle |-> FALSE, inDouble |-> FALSE, isEscaped |-> FALSE]

\* the locals of the running call
FieldsCur ==
    [sb |-> sb, fields |-> fields, balance |-> balance,
     inSingle |-> inSingle, inDouble |-> inDouble, isEscaped |-> isEscaped]

\* EscapedRune that still counts an escaped parenthesis
EscapedRune_CountsParens(st, r) ==
    [st EXCEPT !.sb = Append(@, r), !.isEscaped = FALSE,
               !.balance = IF r = "(" THEN @ + 1 ELSE IF r = ")" THEN @ - 1 ELSE @]

\* if isEscaped { sb.WriteRune(r); isEscaped = false; continue }
EscapedRune(st, r) ==
    [st EXCEPT !.sb = Append(@, r), !.isEscaped = FALSE]

\* Dispatch with case sep after the quote and parenthesis cases
Dispatch_SepLast(r, sp) ==
    IF r = "\\" THEN "escape"
    ELSE IF r = "\"" THEN "double"
    ELSE IF r = "'" THEN "single"
    ELSE IF r = "(" THEN "open"
    ELSE IF r = ")" THEN "close"
    ELSE IF r = sp THEN "sep"
    ELSE "default"

\* the case of the switch that r selects: the first that matches, in source order
Dispatch(r, sp) ==
    IF r = "\\" THEN "escape"
    ELSE IF r = sp THEN "sep"
    ELSE IF r = "\"" THEN "double"
    ELSE IF r = "'" THEN "single"
    ELSE IF r = "(" THEN "open"
    ELSE IF r = ")" THEN "close"
    ELSE "default"

\* StartEscape that also writes the backslash to the field
StartEscape_KeepsBackslash(st) ==
    [st EXCEPT !.isEscaped = TRUE, !.sb = Append(@, "\\")]

\* case '\\': isEscaped = true; continue
StartEscape(st) == [st EXCEPT !.isEscaped = TRUE]

\* SepCloses without the parenthesis count
SepCloses_NoBalance(st) == ~st.inSingle /\ ~st.inDouble

\* the condition under which case sep closes the field
SepCloses(st) == st.balance = 0 /\ ~st.inSingle /\ ~st.inDouble

\* CloseField without sb.Reset()
CloseField_NoReset(st) == [st EXCEPT !.fields = Append(@, st.sb)]

\* fields = append(fields, sb.String()); sb.Reset(); continue
CloseField(st) == [st EXCEPT !.fields = Append(@, st.sb), !.sb = <<>>]

\* ToggleDouble without the single-quote guard
ToggleDouble_NoGuard(st) == [st EXCEPT !.inDouble = ~@]

\* case '"'
ToggleDouble(st) ==
    IF ~st.inSingle THEN [st EXCEPT !.inDouble = ~@] ELSE st

\* case '\''
ToggleSingle(st) ==
    IF ~st.inDouble THEN [st EXCEPT !.inSingle = ~@] ELSE st

\* OpenParen without the quote guard
OpenParen_NoGuard(st) == [st EXCEPT !.balance = @ + 1]

\* case '('
OpenParen(st) ==
    IF ~st.inSingle /\ ~st.inDouble THEN [st EXCEPT !.balance = @ + 1] ELSE st

\* case ')'
CloseParen(st) ==
    IF ~st.inSingle /\ ~st.inDouble THEN [st EXCEPT !.balance = @ - 1] ELSE st

\* sb.WriteRune(r) after the switch
WriteRune(st, r) == [st EXCEPT !.sb = Append(@, r)]

\* the body of the range loop for code point r
FieldsRune(st, r, sp) ==
    IF st.isEscaped THEN EscapedRune(st, r)
    ELSE LET c == Dispatch(r, sp) IN
         CASE c = "escape" -> StartEscape(st)
           [] c = "sep" -> IF SepCloses(st) THEN CloseField(st)
                                            ELSE WriteRune(st, r)
           [] c = "double" -> WriteRune(ToggleDouble(st), r)
           [] c = "single" -> WriteRune(ToggleSingle(st), r)
           [] c = "open" -> WriteRune(OpenParen(st), r)
           [] c = "close" -> WriteRune(CloseParen(st), r)
           [] OTHER -> WriteRune(st, r)

\* the locals after the first k code points of str
RECURSIVE FieldsScan(_, _, _)
FieldsScan(str, sp, k) ==
    IF k = 0 THEN FieldsStart
    ELSE FieldsRune(FieldsScan(str, sp, k - 1), str[k], sp)

\* FieldsValidate without the check for a negative count
FieldsValidate_NoNegativeCheck(st) ==
    IF st.isEscaped THEN ErrDanglingEscape
    ELSE IF st.balance # 0 THEN ErrUnbalancedParens
    ELSE IF st.inSingle THEN ErrUnbalancedSingle
    ELSE IF st.inDouble THEN ErrUnbalancedDouble
    ELSE NoError

\* FieldsValidate with the quote checks ahead of the parenthesis checks
FieldsValidate_QuotesFirst(st) ==
    IF st.isEscaped THEN ErrDanglingEscape
    ELSE IF st.inSingle THEN ErrUnbalancedSingle
    ELSE IF st.inDouble THEN ErrUnbalancedDouble
    ELSE IF st.balance < 0 THEN ErrTooManyClosing
    ELSE IF st.balance # 0 THEN ErrUnbalancedParens
    ELSE NoError

\* the checks after the loop, in source order
FieldsValidate(st) ==
    IF st.isEscaped THEN ErrDanglingEscape
    ELSE IF st.balance < 0 THEN ErrTooManyClosing
    ELSE IF st.balance # 0 THEN ErrUnbalancedParens
    ELSE IF st.inSingle THEN ErrUnbalancedSingle
    ELSE IF st.inDouble THEN ErrUnbalancedDouble
    ELSE NoError

\* FieldsFinal that appends the last field even when it is empty
FieldsFinal_AlwaysAppends(st) == Append(st.fields, st.sb)

\* if sb.Len() > 0 { fields = append(fields, sb.String()) }; return fields, nil
FieldsFinal(st) ==
    IF Len(st.sb) > 0 THEN Append(st.fields, st.sb) ELSE st.fields

\* FieldsResult that returns the fields collected so far with the error
FieldsResult_Partial(st, err) == Slice(FieldsFinal(st))

\* the slice Fields returns with error err
FieldsResult(st, err) ==
    IF err # NoError THEN NilSlice ELSE Slice(FieldsFinal(st))

----------------------------------------------------------------------------
(* The calls that are not in progress *)

UnquoteIdle ==
    /\ us = <<>> /\ upos = 1 /\ usb = <<>>
    /\ inQuote = FALSE /\ escape = FALSE
    /\ upc = "idle" /\ ures = <<>> /\ uerr = Pending

FieldsIdle ==
    /\ s = <<>> /\ sep = "," /\ pos = 1
    /\ sb = <<>> /\ fields = <<>> /\ balance = 0
    /\ inSingle = FALSE /\ inDouble = FALSE /\ isEscaped = FALSE
    /\ fpc = "idle" /\ fres = NilSlice /\ ferr = Pending

StringsIdle ==
    /\ elems = <<>> /\ eidx = 1 /\ unquoted = <<>>
    /\ spc = "idle" /\ sres = NilSlice /\ serr = Pending

DedupIdle ==
    /\ ds = NilSlice /\ di = 1 /\ seen = {} /\ result = <<>>
    /\ dpc = "idle" /\ dres = NilSlice

CallersIdle ==
    /\ calls = <<>> /\ locals = <<>> /\ cpos = <<>> /\ cpc = <<>> /\ cres = <<>>

----------------------------------------------------------------------------
(* Fields: the state machine *)

\* a call Fields(s, sep) has declared its locals
FieldsInit ==
    /\ s \in Strings(FChars, FMaxLen)
    /\ sep \in FSeps
    /\ pos = 1
    /\ sb = FieldsStart.sb /\ fields = FieldsStart.fields
    /\ balance = FieldsStart.balance
    /\ inSingle = FieldsStart.inSingle /\ inDouble = FieldsStart.inDouble
    /\ isEscaped = FieldsStart.isEscaped
    /\ fpc = "loop" /\ fres = NilSlice /\ ferr = Pending
    /\ UnquoteIdle /\ StringsIdle /\ DedupIdle /\ CallersIdle

\* FieldsLoop that does not move on to the next code point
FieldsLoop_NoAdvance ==
    /\ fpc = "loop"
    /\ pos <= Len(s)
    /\ LET st == FieldsRune(FieldsCur, s[pos], sep) IN
        /\ sb' = st.sb /\ fields' = st.fields /\ balance' = st.balance
        /\ inSingle' = st.inSingle /\ inDouble' = st.inDouble
        /\ isEscaped' = st.isEscaped
    /\ UNCHANGED <<s, sep, pos, fpc, fres, ferr>>
    /\ UNCHANGED <<uvars, svars, dvars, cvars>>

\* one iteration of for _, r := range s
FieldsLoop ==
    /\ fpc = "loop"
    /\ pos <= Len(s)
    /\ LET st == FieldsRune(FieldsCur, s[pos], sep) IN
        /\ sb' = st.sb /\ fields' = st.fields /\ balance' = st.balance
        /\ inSingle' = st.inSingle /\ inDouble' = st.inDouble
        /\ isEscaped' = st.isEscaped
    /\ pos' = pos + 1
    /\ UNCHANGED <<s, sep, fpc, fres, ferr>>
    /\ UNCHANGED <<uvars, svars, dvars, cvars>>

\* the end of the loop: the checks and the return
FieldsReturn ==
    /\ fpc = "loop"
    /\ pos > Len(s)
    /\ LET err == FieldsValidate(FieldsCur) IN
        /\ ferr' = err
        /\ fres' = FieldsResult(FieldsCur, err)
    /\ fpc' = "done"
    /\ UNCHANGED <<s, sep, pos, sb, fields, balance, inSingle, inDouble, isEscaped>>
    /\ UNCHANGED <<uvars, svars, dvars, cvars>>

FieldsNext == FieldsLoop \/ FieldsReturn

FieldsSpec == FieldsInit /\ [][FieldsNext]_vars

----------------------------------------------------------------------------
(* UnquoteString: the scan state and one iteration of the range loop *)

\* the locals of UnquoteString after their declarations
UnquoteStart == [sb |-> <<>>, inQuote |-> FALSE, escape |-> FALSE]

\* the locals of the running call
UnquoteCur == [sb |-> usb, inQuote |-> inQuote, escape |-> escape]

\* ResolveEscape that drops the backslash of every escaped code point
ResolveEscape_DropsBackslash(st, r) ==
    [st EXCEPT !.sb = Append(@, r), !.escape = FALSE]

\* case escape: a quote or a backslash is written alone, any other code point
\* after a backslash
ResolveEscape(st, r) ==
    [st EXCEPT !.sb = IF r = "\"" \/ r = "\\" THEN Append(@, r)
                      ELSE Append(Append(@, "\\"), r),
               !.escape = FALSE]

\* EscapeOutside that never returns: a backslash outside a quote sets escape
EscapeOutside_Never(st, r) == FALSE

\* case r == '\\' with !inQuote: the call returns the error at once
EscapeOutside(st, r) == ~st.escape /\ r = "\\" /\ ~st.inQuote

\* case r == '\\' with inQuote
SetEscape(st) == [st EXCEPT !.escape = TRUE]

\* case r == '"'
ToggleQuote(st) == [st EXCEPT !.inQuote = ~@]

\* default: sb.WriteRune(r)
CopyRune(st, r) == [st EXCEPT !.sb = Append(@, r)]

\* the body of the range loop for code point r, when it does not return
UnquoteRune(st, r) ==
    IF st.escape THEN ResolveEscape(st, r)
    ELSE IF r = "\\" THEN SetEscape(st)
    ELSE IF r = "\"" THEN ToggleQuote(st)
    ELSE CopyRune(st, r)

\* the locals after the first k code points of str, none of which returned
RECURSIVE UnquoteScan(_, _)
UnquoteScan(str, k) ==
    IF k = 0 THEN UnquoteStart
    ELSE UnquoteRune(UnquoteScan(str, k - 1), str[k])

\* UnquoteValidate with the open-quote check ahead of the escape check
UnquoteValidate_QuoteFirst(st) ==
    IF st.inQuote THEN ErrUnterminated
    ELSE IF st.escape THEN ErrDanglingEscape
    ELSE NoError

\* the checks after the loop, in source order
UnquoteValidate(st) ==
    IF st.escape THEN ErrDanglingEscape
    ELSE IF st.inQuote THEN ErrUnterminated
    ELSE NoError

\* the string UnquoteString returns with error err
UnquoteResult(st, err) == IF err # NoError THEN <<>> ELSE st.sb

----------------------------------------------------------------------------
(* UnquoteString: the state machine *)

\* a call UnquoteString(us) has declared its locals
UnquoteInit ==
    /\ us \in Strings(UChars, UMaxLen)
    /\ upos = 1
    /\ usb = UnquoteStart.sb
    /\ inQuote = UnquoteStart.inQuote /\ escape = UnquoteStart.escape
    /\ upc = "loop" /\ ures = <<>> /\ uerr = Pending
    /\ FieldsIdle /\ StringsIdle /\ DedupIdle /\ CallersIdle

\* one iteration of for _, r := range s that stays in the loop
UnquoteLoop ==
    /\ upc = "loop"
    /\ upos <= Len(us)
    /\ ~EscapeOutside(UnquoteCur, us[upos])
    /\ LET st == UnquoteRune(UnquoteCur, us[upos]) IN
        /\ usb' = st.sb /\ inQuote' = st.inQuote /\ escape' = st.escape
    /\ upos' = upos + 1
    /\ UNCHANGED <<us, upc, ures, uerr>>
    /\ UNCHANGED <<fvars, svars, dvars, cvars>>

\* the iteration that meets a backslash outside a quote and returns
UnquoteFail ==
    /\ upc = "loop"
    /\ upos <= Len(us)
    /\ EscapeOutside(UnquoteCur, us[upos])
    /\ upc' = "done"
    /\ uerr' = ErrEscapeOutside
    /\ ures' = UnquoteResult(UnquoteCur, ErrEscapeOutside)
    /\ UNCHANGED <<us, upos, usb, inQuote, escape>>
    /\ UNCHANGED <<fvars, svars, dvars, cvars>>

\* the end of the loop: the checks and the return
UnquoteReturn ==
    /\ upc = "loop"
    /\ upos > Len(us)
    /\ LET err == UnquoteValidate(UnquoteCur) IN
        /\ uerr' = err
        /\ ures' = UnquoteResult(UnquoteCur, err)
    /\ upc' = "done"
    /\ UNCHANGED <<us, upos, usb, inQuote, escape>>
    /\ UNCHANGED <<fvars, svars, dvars, cvars>>

UnquoteNext == UnquoteLoop \/ UnquoteFail \/ UnquoteReturn

UnquoteSpec == UnquoteInit /\ [][UnquoteNext]_vars

----------------------------------------------------------------------------
(* UnquoteString as a function of its argument *)

\* the call from code point k on with locals st: what it returns
RECURSIVE UnquoteFrom(_, _, _)
UnquoteFrom(str, k, st) ==
    IF k > Len(str)
    THEN LET err == UnquoteValidate(st) IN
         [res |-> UnquoteResult(st, err), err |-> err]
    ELSE IF EscapeOutside(st, str[k])
         THEN [res |-> UnquoteResult(st, ErrEscapeOutside),
               err |-> ErrEscapeOutside]
    ELSE UnquoteFrom(str, k + 1, UnquoteRune(st, str[k]))

\* s, err := UnquoteString(str)
UnquoteString(str) == UnquoteFrom(str, 1, UnquoteStart)

----------------------------------------------------------------------------
(* UnquoteStrings: the state machine *)

\* most elements of an argument of UnquoteStrings
SMaxElems == 3

\* the strings the elements are drawn from: three that unquote (the empty
\* string, a, "a", "\"") and one for each error (\ outside a quote, "a
\* unterminated, "\ dangling)
SElems ==
    { <<>>, <<"a">>, <<"\"", "a", "\"">>, <<"\"", "\\", "\"", "\"">>,
      <<"\\">>, <<"\"", "a">>, <<"\"", "\\">> }

\* StringsResult that returns what was unquoted before the failure
StringsResult_Partial(acc, err) == Slice(acc)

\* the slice UnquoteStrings returns with error err: return nil, err or
\* return unquoted, nil
StringsResult(acc, err) == IF err # NoError THEN NilSlice ELSE Slice(acc)

\* a call UnquoteStrings(elems) has made its local
StringsInit ==
    /\ elems \in Strings(SElems, SMaxElems)
    /\ eidx = 1
    /\ unquoted = <<>>
    /\ spc = "loop" /\ sres = NilSlice /\ serr = Pending
    /\ FieldsIdle /\ UnquoteIdle /\ DedupIdle /\ CallersIdle

\* one iteration of for _, elem := range elems whose UnquoteString succeeds
StringsLoop ==
    /\ spc = "loop"
    /\ eidx <= Len(elems)
    /\ LET r == UnquoteString(elems[eidx]) IN
        /\ r.err = NoError
        /\ unquoted' = Append(unquoted, r.res)
    /\ eidx' = eidx + 1
    /\ UNCHANGED <<elems, spc, sres, serr>>
    /\ UNCHANGED <<fvars, uvars, dvars, cvars>>

\* the iteration whose UnquoteString fails: return nil, err
StringsFail ==
    /\ spc = "loop"
    /\ eidx <= Len(elems)
    /\ LET r == UnquoteString(elems[eidx]) IN
        /\ r.err # NoError
        /\ serr' = r.err
        /\ sres' = StringsResult(unquoted, r.err)
    /\ spc' = "done"
    /\ UNCHANGED <<elems, eidx, unquoted>>
    /\ UNCHANGED <<fvars, uvars, dvars, cvars>>

\* the end of the loop: return unquoted, nil
StringsReturn ==
    /\ spc = "loop"
    /\ eidx > Len(elems)
    /\ serr' = NoError
    /\ sres' = StringsResult(unquoted, NoError)
    /\ spc' = "done"
    /\ UNCHANGED <<elems, eidx, unquoted>>
    /\ UNCHANGED <<fvars, uvars, dvars, cvars>>

StringsNext == StringsLoop \/ StringsFail \/ StringsReturn

StringsSpec == StringsInit /\ [][StringsNext]_vars

----------------------------------------------------------------------------
(* Deduplicate *)

\* longest argument of Deduplicate
DMaxLen == 4

\* the comparable values the elements are drawn from
DVals == {1, 2, 3}

\* seen and result after make
DedupStart == [seen |-> {}, result |-> <<>>]

\* the locals of the running call
DedupCur == [seen |-> seen, result |-> result]

\* DedupStep that appends without recording the element in seen
DedupStep_NoMark(st, e) ==
    IF e \notin st.seen THEN [st EXCEPT !.result = Append(@, e)] ELSE st

\* DedupStep that puts a new element at the front of result
DedupStep_Prepends(st, e) ==
    IF e \notin st.seen
    THEN [seen |-> st.seen \cup {e}, result |-> <<e>> \o st.result]
    ELSE st

\* the body of the range loop for element e
DedupStep(st, e) ==
    IF e \notin st.seen
    THEN [seen |-> st.seen \cup {e}, result |-> Append(st.result, e)]
    ELSE st

\* the locals after the first k elements of es
RECURSIVE DedupScan(_, _)
DedupScan(es, k) ==
    IF k = 0 THEN DedupStart ELSE DedupStep(DedupScan(es, k - 1), es[k])

\* Deduplicate(sl) as a function of its argument
Deduplicate(sl) ==
    IF Len(sl.elems) = 0 THEN Slice(<<>>)
    ELSE Slice(DedupScan(sl.elems, Len(sl.elems)).result)

\* a call Deduplicate(ds) has been entered; ds is nil or a slice
DedupInit ==
    /\ ds \in {NilSlice} \cup {Slice(es) : es \in Strings(DVals, DMaxLen)}
    /\ di = 1 /\ seen = {} /\ result = <<>>
    /\ dpc = "check" /\ dres = NilSlice
    /\ FieldsIdle /\ UnquoteIdle /\ StringsIdle /\ CallersIdle

\* if len(s) == 0 { return []T{} }
DedupEmpty ==
    /\ dpc = "check"
    /\ Len(ds.elems) = 0
    /\ dres' = Slice(<<>>)
    /\ dpc' = "done"
    /\ UNCHANGED <<ds, di, seen, result>>
    /\ UNCHANGED <<fvars, uvars, svars, cvars>>

\* seen := make(...); result := make(...)
DedupMake ==
    /\ dpc = "check"
    /\ Len(ds.elems) # 0
    /\ seen' = DedupStart.seen /\ result' = DedupStart.result
    /\ dpc' = "loop"
    /\ UNCHANGED <<ds, di, dres>>
    /\ UNCHANGED <<fvars, uvars, svars, cvars>>

\* one iteration of for _, e := range s
DedupLoop ==
    /\ dpc = "loop"
    /\ di <= Len(ds.elems)
    /\ LET st == DedupStep(DedupCur, ds.elems[di]) IN
        seen' = st.seen /\ result' = st.result
    /\ di' = di + 1
    /\ UNCHANGED <<ds, dpc, dres>>
    /\ UNCHANGED <<fvars, uvars, svars, cvars>>

\* return result
DedupReturn ==
    /\ dpc = "loop"
    /\ di > Len(ds.elems)
    /\ dres' = Slice(result)
    /\ dpc' = "done"
    /\ UNCHANGED <<ds, di, seen, result>>
    /\ UNCHANGED <<fvars, uvars, svars, cvars>>

DedupNext == DedupEmpty \/ DedupMake \/ DedupLoop \/ DedupReturn

DedupSpec == DedupInit /\ [][DedupNext]_vars

----------------------------------------------------------------------------
(* Fields as a function of its arguments *)

\* fields, err := Fields(str, sp)
FieldsCall(str, sp) ==
    LET st == FieldsScan(str, sp, Len(str))
        err == FieldsValidate(st)
    IN [res |-> FieldsResult(st, err), err |-> err]

----------------------------------------------------------------------------
(* Concurrent callers: each runs one call of Fields or of UnquoteString on *)
(* its own argument, and the steps of the calls interleave in any order    *)

\* longest argument of a concurrent call
CMaxLen == 2

Callers == {1, 2}

\* the code points the arguments of the concurrent calls are drawn from
CChars == {"a", ",", "\\", "\""}

\* the calls a caller can make
CCalls ==
    {[op |-> o, str |-> x, sp |-> ","] :
        o \in {"Fields", "UnquoteString"}, x \in Strings(CChars, CMaxLen)}

\* LocalsOf with one set of locals shared by all calls, as package-level
\* variables would be
LocalsOf_Shared(p) == 1

\* where the locals of caller p's call live: sb, fields, balance and the
\* flags are declared inside the function, so every call has its own
LocalsOf(p) == p

\* the locals of caller p's call
CLocals(p) == locals[LocalsOf(p)]

CallersInit ==
    /\ calls \in [Callers -> CCalls]
    /\ locals = [k \in Callers |-> [f |-> FieldsStart, u |-> UnquoteStart]]
    /\ cpos = [p \in Callers |-> 1]
    /\ cpc = [p \in Callers |-> "loop"]
    /\ cres = [p \in Callers |-> [res |-> NilSlice, err |-> Pending]]
    /\ FieldsIdle /\ UnquoteIdle /\ StringsIdle /\ DedupIdle

\* caller p's Fields runs one iteration of its range loop
CFieldsLoop(p) ==
    /\ cpc[p] = "loop" /\ calls[p].op = "Fields"
    /\ cpos[p] <= Len(calls[p].str)
    /\ locals' = [locals EXCEPT ![LocalsOf(p)].f =
                      FieldsRune(CLocals(p).f, calls[p].str[cpos[p]], calls[p].sp)]
    /\ cpos' = [cpos EXCEPT ![p] = @ + 1]
    /\ UNCHANGED <<calls, cpc, cres>>
    /\ UNCHANGED <<fvars, uvars, svars, dvars>>

\* caller p's Fields runs its checks and returns
CFieldsReturn(p) ==
    /\ cpc[p] = "loop" /\ calls[p].op = "Fields"
    /\ cpos[p] > Len(calls[p].str)
    /\ LET err == FieldsValidate(CLocals(p).f) IN
        cres' = [cres EXCEPT ![p] =
                    [res |-> FieldsResult(CLocals(p).f, err), err |-> err]]
    /\ cpc' = [cpc EXCEPT ![p] = "done"]
    /\ UNCHANGED <<calls, locals, cpos>>
    /\ UNCHANGED <<fvars, uvars, svars, dvars>>

\* caller p's UnquoteString runs one iteration that stays in the loop
CUnquoteLoop(p) ==
    /\ cpc[p] = "loop" /\ calls[p].op = "UnquoteString"
    /\ cpos[p] <= Len(calls[p].str)
    /\ ~EscapeOutside(CLocals(p).u, calls[p].str[cpos[p]])
    /\ locals' = [locals EXCEPT ![LocalsOf(p)].u =
                      UnquoteRune(CLocals(p).u, calls[p].str[cpos[p]])]
    /\ cpos' = [cpos EXCEPT ![p] = @ + 1]
    /\ UNCHANGED <<calls, cpc, cres>>
    /\ UNCHANGED <<fvars, uvars, svars, dvars>>

\* caller p's UnquoteString meets a backslash outside a quote and returns
CUnquoteFail(p) ==
    /\ cpc[p] = "loop" /\ calls[p].op = "UnquoteString"
    /\ cpos[p] <= Len(calls[p].str)
    /\ EscapeOutside(CLocals(p).u, calls[p].str[cpos[p]])
    /\ cres' = [cres EXCEPT ![p] =
                   [res |-> UnquoteResult(CLocals(p).u, ErrEscapeOutside),
                    err |-> ErrEscapeOutside]]
    /\ cpc' = [cpc EXCEPT ![p] = "done"]
    /\ UNCHANGED <<calls, locals, cpos>>
    /\ UNCHANGED <<fvars, uvars, svars, dvars>>

\* caller p's UnquoteString runs its checks and returns
CUnquoteReturn(p) ==
    /\ cpc[p] = "loop" /\ calls[p].op = "UnquoteString"
    /\ cpos[p] > Len(calls[p].str)
    /\ LET err == UnquoteValidate(CLocals(p).u) IN
        cres' = [cres EXCEPT ![p] =
                    [res |-> UnquoteResult(CLocals(p).u, err), err |-> err]]
    /\ cpc' = [cpc EXCEPT ![p] = "done"]
    /\ UNCHANGED <<calls, locals, cpos>>
    /\ UNCHANGED <<fvars, uvars, svars, dvars>>

CallersNext ==
    \E p \in Callers :
        \/ CFieldsLoop(p) \/ CFieldsReturn(p)
        \/ CUnquoteLoop(p) \/ CUnquoteFail(p) \/ CUnquoteReturn(p)

CallersSpec == CallersInit /\ [][CallersNext]_vars

----------------------------------------------------------------------------
(* One call of any of the three string operations *)

CallInit == FieldsInit \/ UnquoteInit \/ StringsInit

CallNext == FieldsNext \/ UnquoteNext \/ StringsNext

CallSpec == CallInit /\ [][CallNext]_vars

----------------------------------------------------------------------------
(* One call of Fields or of UnquoteString, run to its return *)

ScanInit == FieldsInit \/ UnquoteInit

ScanNext == FieldsNext \/ UnquoteNext

\* a call is synchronous and nothing suspends it: while it has a next
\* statement, it executes it
ScanFairSpec == ScanInit /\ [][ScanNext]_vars /\ WF_vars(ScanNext)

----------------------------------------------------------------------------
(* Claims about Fields *)

\* the running call is about to consume the code point s[pos]
AtRune == fpc = "loop" /\ pos <= Len(s)

\* the separator is neither inside parentheses nor inside a quote
Unsuppressed == balance = 0 /\ ~inSingle /\ ~inDouble

\* C1, as stated: for every separator, a non-escaped occurrence of sep closes
\* the current field (appending it, even empty, without the separator) exactly
\* when paren_depth is 0 and no quote is open; otherwise it is copied into the
\* current field and no field is closed.
C1_SepClosesForEverySep ==
    [][(AtRune /\ ~isEscaped /\ s[pos] = sep) =>
          IF Unsuppressed
          THEN fields' = Append(fields, sb) /\ sb' = <<>>
          ELSE fields' = fields /\ sb' = Append(sb, sep)]_vars

\* C1, amended: the same for every separator other than the backslash.
C1_SepCloses ==
    [][(AtRune /\ ~isEscaped /\ s[pos] = sep /\ sep # "\\") =>
          IF Unsuppressed
          THEN fields' = Append(fields, sb) /\ sb' = <<>>
          ELSE fields' = fields /\ sb' = Append(sb, sep)]_vars

\* C1 witness: of ",(," the first comma has closed an empty field and the
\* second, inside the parenthesis, has been copied.
C1_Witness ==
    /\ sep = "," /\ Len(s) >= 3 /\ pos = 4
    /\ s[1] = "," /\ s[2] = "(" /\ s[3] = ","
    /\ fields = << <<>> >>
    /\ sb = <<"(", ",">>

\* C2: the end-of-scan checks report the first violation in the order pending
\* escape, negative depth, positive depth, open single quote, open double
\* quote, and the call returns no error exactly when none of the five holds.
C2_ValidationOrder ==
    fpc = "done" =>
        /\ (ferr = ErrDanglingEscape) <=> isEscaped
        /\ (ferr = ErrTooManyClosing) <=> (~isEscaped /\ balance < 0)
        /\ (ferr = ErrUnbalancedParens) <=> (~isEscaped /\ balance > 0)
        /\ (ferr = ErrUnbalancedSingle) <=>
               (~isEscaped /\ balance = 0 /\ inSingle)
        /\ (ferr = ErrUnbalancedDouble) <=>
               (~isEscaped /\ balance = 0 /\ ~inSingle /\ inDouble)
        /\ (ferr = NoError) <=>
               (~isEscaped /\ balance = 0 /\ ~inSingle /\ ~inDouble)

\* C2 witness: a call that ended with three violations at once (pending
\* escape, negative depth, open single quote) and reported the first.
C2_Witness ==
    /\ fpc = "done" /\ isEscaped /\ balance < 0 /\ inSingle
    /\ ferr = ErrDanglingEscape

\* the depth was negative after some prefix of the input
WentNegative == \E k \in 1..Len(s) : FieldsScan(s, sep, k).balance < 0

\* C3: once paren_depth has become negative during the scan the call returns
\* an error whatever follows (a later '(' does not rebalance it), and only
\* after the whole input has been scanned.
C3_NegativeDepthIsFatal ==
    (fpc = "done" /\ WentNegative) => (ferr # NoError /\ pos = Len(s) + 1)

RECURSIVE BalancedFrom(_, _, _, _)
BalancedFrom(str, i, depth, quote) ==
    IF i > Len(str) THEN depth = 0 /\ quote = "none"
    ELSE IF str[i] = "\\"
         THEN i + 1 <= Len(str) /\ BalancedFrom(str, i + 2, depth, quote)
    ELSE IF quote = "none"
         THEN CASE str[i] = "\"" -> BalancedFrom(str, i + 1, depth, "double")
                [] str[i] = "'" -> BalancedFrom(str, i + 1, depth, "single")
                [] str[i] = "(" -> BalancedFrom(str, i + 1, depth + 1, quote)
                [] str[i] = ")" ->
                       depth > 0 /\ BalancedFrom(str, i + 1, depth - 1, quote)
                [] OTHER -> BalancedFrom(str, i + 1, depth, quote)
    ELSE IF (quote = "double" /\ str[i] = "\"") \/ (quote = "single" /\ str[i] = "'")
         THEN BalancedFrom(str, i + 1, depth, "none")
    ELSE BalancedFrom(str, i + 1, depth, quote)

Balanced(str) == BalancedFrom(str, 1, 0, "none")

\* the fields joined with the separator reinserted between them
RECURSIVE Join(_, _)
Join(fs, sp) ==
    IF fs = <<>> THEN <<>>
    ELSE IF Len(fs) = 1 THEN fs[1]
    ELSE fs[1] \o <<sp>> \o Join(Tail(fs), sp)

\* the input from index i on, without the backslashes that act as escapes
RECURSIVE Unescaped(_, _)
Unescaped(str, i) ==
    IF i > Len(str) THEN <<>>
    ELSE IF str[i] = "\\"
         THEN IF i + 1 <= Len(str)
              THEN <<str[i + 1]>> \o Unescaped(str, i + 2)
              ELSE <<>>
    ELSE <<str[i]>> \o Unescaped(str, i + 1)

\* the separator that closed the last field, when nothing follows it: the
\* empty field after it is dropped, so the join does not reinsert it
DroppedDelimiter == IF sb = <<>> /\ fields # <<>> THEN <<sep>> ELSE <<>>

\* C5, as stated: on every balanced input Fields returns no error and the
\* join of the fields recovers all the characters of the input (the empty
\* input gives the empty sequence; a final delimiter with nothing after it is
\* counted as consumed).
C5_JoinRecoversInput ==
    (fpc = "done" /\ Balanced(s)) =>
        /\ ferr = NoError
        /\ ~fres.isNil
        /\ Join(fres.elems, sep) \o DroppedDelimiter = s

\* C5, amended: for a separator that is neither a quote nor a parenthesis, on
\* every balanced input Fields returns no error and the join of the fields
\* recovers the input without the backslashes that acted as escapes.
C5_JoinRecoversUnescaped ==
    (fpc = "done" /\ Balanced(s) /\ sep \notin {"\"", "'", "(", ")"}) =>
        /\ ferr = NoError
        /\ ~fres.isNil
        /\ Join(fres.elems, sep) \o DroppedDelimiter = Unescaped(s, 1)

\* C5 witness: a balanced input with an escape and at least two fields.
C5_Witness ==
    /\ fpc = "done" /\ sep = "," /\ Balanced(s) /\ ferr = NoError
    /\ Len(fres.elems) >= 2
    /\ \E i \in 1..Len(s) : s[i] = "\\"

\* the occurrences of the separator that are not escaped and lie outside
\* parentheses and quotes
UnsuppressedSeps(str, sp) ==
    {k \in 1..Len(str) :
        /\ str[k] = sp
        /\ LET st == FieldsScan(str, sp, k - 1) IN
              ~st.isEscaped /\ st.balance = 0 /\ ~st.inSingle /\ ~st.inDouble}

\* what C6 says of a successful call: the text after the last closing
\* separator (sb) is appended only when non-empty, the count of fields is the
\* count of unsuppressed separators plus one for a non-empty remaining text,
\* and the empty input gives an empty non-nil slice
TrailingRule ==
    /\ ~fres.isNil
    /\ fres.elems = fields \o (IF sb # <<>> THEN <<sb>> ELSE <<>>)
    /\ Len(fres.elems) = Cardinality(UnsuppressedSeps(s, sep))
                           + (IF sb # <<>> THEN 1 ELSE 0)
    /\ s = <<>> => fres = Slice(<<>>)

\* C6, as stated: TrailingRule on every successful call.
C6_TrailingFieldForEverySep ==
    (fpc = "done" /\ ferr = NoError) => TrailingRule

\* C6, amended: TrailingRule on every successful call whose separator is not
\* the backslash.
C6_TrailingField ==
    (fpc = "done" /\ ferr = NoError /\ sep # "\\") => TrailingRule

\* C6 witness: a leading empty field was kept and the empty field after the
\* final separator was dropped.
C6_Witness ==
    /\ fpc = "done" /\ ferr = NoError /\ sep = ","
    /\ Len(s) >= 2 /\ s[Len(s)] = "," /\ sb = <<>>
    /\ Len(fres.elems) >= 2 /\ fres.elems[1] = <<>>
    /\ Len(fres.elems) = Cardinality(UnsuppressedSeps(s, sep))

\* C7: a non-escaped backslash sets pending_escape and appends nothing; the
\* next code point, whatever it is, is appended verbatim, clears
\* pending_escape, changes neither the depth nor a quote flag and closes no
\* field.
C7_Escape ==
    [][AtRune =>
          /\ (~isEscaped /\ s[pos] = "\\") =>
                 /\ isEscaped' /\ sb' = sb /\ fields' = fields
                 /\ balance' = balance
                 /\ inSingle' = inSingle /\ inDouble' = inDouble
          /\ isEscaped =>
                 /\ ~isEscaped' /\ sb' = Append(sb, s[pos]) /\ fields' = fields
                 /\ balance' = balance
                 /\ inSingle' = inSingle /\ inDouble' = inDouble]_vars

\* C7 witness: an escaped special code point (the separator, a quote, a
\* parenthesis or a backslash) has been appended and nothing else has changed.
C7_Witness ==
    /\ Len(s) >= 2 /\ pos = 3 /\ s[1] = "\\"
    /\ s[2] \in {sep, "\"", "'", "(", ")", "\\"}
    /\ sb = <<s[2]>> /\ fields = <<>> /\ ~isEscaped
    /\ balance = 0 /\ ~inSingle /\ ~inDouble

\* C8: the two quote flags are never both set, and a quote character of one
\* kind met while the other kind is open is copied and toggles nothing.
C8_QuotesExclusive ==
    /\ [](~(inSingle /\ inDouble))
    /\ [][(AtRune /\ ~isEscaped
           /\ ((s[pos] = "\"" /\ inSingle) \/ (s[pos] = "'" /\ inDouble))) =>
             /\ sb' = Append(sb, s[pos]) /\ fields' = fields
             /\ inSingle' = inSingle /\ inDouble' = inDouble
             /\ balance' = balance]_vars

\* C8 witness: a single quote met inside a double-quoted region was copied
\* and left both flags alone.
C8_Witness ==
    /\ sep = "," /\ Len(s) >= 2 /\ pos = 3
    /\ s[1] = "\"" /\ s[2] = "'"
    /\ inDouble /\ ~inSingle /\ sb = <<"\"", "'">>

\* C16: parenthesis tracking and quote tracking are independent: a
\* non-escaped '(' or ')' met while either quote is open is copied and leaves
\* paren_depth unchanged, and a non-escaped quote character changes the quote
\* flags at any paren_depth exactly as it does at depth 0 (where, unless it is
\* the separator, it toggles its flag when the other quote is not open).
C16_ParensQuotesIndependent ==
    [][(AtRune /\ ~isEscaped) =>
          /\ (s[pos] \in {"(", ")"} /\ (inSingle \/ inDouble)) =>
                 /\ balance' = balance
                 /\ sb' = Append(sb, s[pos]) /\ fields' = fields
          /\ s[pos] \in {"\"", "'"} =>
                 LET atZero == FieldsRune([FieldsCur EXCEPT !.balance = 0],
                                          s[pos], sep) IN
                     /\ inSingle' = atZero.inSingle
                     /\ inDouble' = atZero.inDouble
                     /\ balance' = balance
          /\ (s[pos] = "\"" /\ sep # "\"" /\ ~inSingle) => inDouble' = ~inDouble
          /\ (s[pos] = "'" /\ sep # "'" /\ ~inDouble) => inSingle' = ~inSingle]_vars

\* C16 witness: of ("( the quote inside the parenthesis has opened a quoted
\* region and the parenthesis inside that region has not been counted.
C16_Witness ==
    /\ sep = "," /\ Len(s) >= 3 /\ pos = 4
    /\ s[1] = "(" /\ s[2] = "\"" /\ s[3] = "("
    /\ balance = 1 /\ inDouble /\ ~inSingle
    /\ sb = <<"(", "\"", "(">>

\* code point k of str is a backslash that acts as an escape
EscapingAt(str, sp, k) ==
    str[k] = "\\" /\ ~FieldsScan(str, sp, k - 1).isEscaped

\* code point k of str is an occurrence of the separator that closed a field
ClosingAt(str, sp, k) ==
    /\ str[k] = sp
    /\ Len(FieldsScan(str, sp, k).fields) > Len(FieldsScan(str, sp, k - 1).fields)

\* str from index k on without its escaping backslashes and closing separators
RECURSIVE KeptFrom(_, _, _)
KeptFrom(str, sp, k) ==
    IF k > Len(str) THEN <<>>
    ELSE (IF EscapingAt(str, sp, k) \/ ClosingAt(str, sp, k)
          THEN <<>> ELSE <<str[k]>>) \o KeptFrom(str, sp, k + 1)

\* the fields one after the other, with nothing between them
RECURSIVE Flatten(_)
Flatten(fs) == IF fs = <<>> THEN <<>> ELSE Head(fs) \o Flatten(Tail(fs))

\* C19: whenever Fields succeeds, the concatenation of the returned fields
\* is the input without the backslashes that acted as escapes and without the
\* separator occurrences that closed a field; nothing else is dropped,
\* duplicated or reordered.
C19_FieldsKeepEverythingElse ==
    (fpc = "done" /\ ferr = NoError) =>
        Flatten(fres.elems) = KeptFrom(s, sep, 1)

\* C19 witness: of \,,a the escaping backslash and the second comma are gone;
\* the escaped comma and the a are kept.
C19_Witness ==
    /\ fpc = "done" /\ ferr = NoError /\ sep = ","
    /\ s = <<"\\", ",", ",", "a">>
    /\ fres.elems = << <<",">>, <<"a">> >>

\* C20: the separator role of a code point comes before its quote or
\* parenthesis role: when sep is a quote or a parenthesis, a non-escaped
\* occurrence of sep changes neither quote flag nor the depth, and either
\* closes a field or is copied; when sep is the backslash the escape role
\* comes first, no field is ever closed and a successful call returns at most
\* one field.
C20_SeparatorPrecedence ==
    /\ [][(AtRune /\ ~isEscaped /\ s[pos] = sep) =>
             /\ sep \in {"\"", "'", "(", ")"} =>
                    /\ inDouble' = inDouble /\ inSingle' = inSingle
                    /\ balance' = balance
                    /\ \/ fields' = Append(fields, sb) /\ sb' = <<>>
                       \/ fields' = fields /\ sb' = Append(sb, sep)
             /\ sep = "\\" =>
                    isEscaped' /\ fields' = fields /\ sb' = sb]_vars
    /\ [](sep = "\\" =>
             /\ fields = <<>>
             /\ (fpc = "done" /\ ferr = NoError) => Len(fres.elems) <= 1)

\* C20 witness: with the double quote as separator, of "'" the first quote
\* has closed an empty field and the second, inside the single quotes, has
\* been copied; neither has opened a double-quoted region.
C20_Witness ==
    /\ sep = "\"" /\ Len(s) >= 3 /\ pos = 4
    /\ s[1] = "\"" /\ s[2] = "'" /\ s[3] = "\""
    /\ fields = << <<>> >> /\ sb = <<"'", "\"">>
    /\ inSingle /\ ~inDouble /\ balance = 0

----------------------------------------------------------------------------
(* Claims about UnquoteString *)

\* the input from index i on with every non-escaped quote removed, \" and \\
\* replaced by the quote and the backslash, and any other pair \x kept
RECURSIVE Unquoted(_, _)
Unquoted(str, i) ==
    IF i > Len(str) THEN <<>>
    ELSE IF str[i] = "\\" /\ i + 1 <= Len(str)
         THEN (IF str[i + 1] \in {"\"", "\\"}
               THEN <<str[i + 1]>>
               ELSE <<"\\", str[i + 1]>>) \o Unquoted(str, i + 2)
    ELSE IF str[i] = "\"" THEN Unquoted(str, i + 1)
    ELSE <<str[i]>> \o Unquoted(str, i + 1)

\* C9: on success UnquoteString returns the input with every non-escaped
\* quote removed, \" replaced by a quote, \\ by one backslash, any other pair
\* \x kept as the two characters, and every other code point copied in order.
C9_UnquoteResult ==
    (upc = "done" /\ uerr = NoError) => ures = Unquoted(us, 1)

\* C9 witness: of "\"\a" the quotes are gone, \" became a quote and \a was
\* kept.
C9_Witness ==
    /\ upc = "done" /\ uerr = NoError
    /\ us = <<"\"", "\\", "\"", "\\", "a", "\"">>
    /\ ures = <<"\"", "\\", "a">>

\* code point k of str is a non-escaped backslash met while no quote is open
OutsideAt(str, k) ==
    /\ str[k] = "\\"
    /\ LET st == UnquoteScan(str, k - 1) IN ~st.escape /\ ~st.inQuote

\* C10: UnquoteString fails with escape-outside-quote at the first
\* non-escaped backslash met while no quote is open, without scanning further;
\* otherwise, at the end of the input, with dangling-escape if escape is set,
\* else with unterminated-double-quote if a quote is open; and it succeeds
\* exactly when none of the three occurs.
C10_UnquoteErrors ==
    /\ [][(upc = "loop" /\ upos <= Len(us) /\ ~escape /\ ~inQuote
           /\ us[upos] = "\\") =>
             (upc' = "done" /\ uerr' = ErrEscapeOutside /\ upos' = upos)]_vars
    /\ [](upc = "done" =>
            /\ (uerr = ErrEscapeOutside) <=>
                   (\E k \in 1..Len(us) : OutsideAt(us, k))
            /\ (uerr = ErrEscapeOutside) =>
                   /\ upos <= Len(us) /\ OutsideAt(us, upos)
                   /\ \A k \in 1..(upos - 1) : ~OutsideAt(us, k)
            /\ (uerr # ErrEscapeOutside) => upos = Len(us) + 1
            /\ (uerr = ErrDanglingEscape) <=> (upos > Len(us) /\ escape)
            /\ (uerr = ErrUnterminated) <=>
                   (upos > Len(us) /\ ~escape /\ inQuote)
            /\ (uerr = NoError) <=>
                   (upos > Len(us) /\ ~escape /\ ~inQuote))

\* C10 witness: the call stopped at a backslash after a closed quote, with
\* input left unscanned.
C10_Witness ==
    /\ upc = "done" /\ uerr = ErrEscapeOutside
    /\ 1 < upos /\ upos < Len(us)
    /\ us[1] = "\"" /\ ~inQuote

\* C11: in every state of an UnquoteString scan escape implies in_quote, and a
\* backslash met outside a quote has ended the call with the error, leaving
\* escape clear.
C11_EscapeOnlyInQuote ==
    /\ escape => inQuote
    /\ (upc = "done" /\ uerr = ErrEscapeOutside) =>
           /\ ~escape /\ ~inQuote
           /\ upos <= Len(us) /\ us[upos] = "\\"

\* C11 witness: a backslash met inside an open quote has set escape.
C11_Witness ==
    /\ upc = "loop" /\ escape /\ inQuote
    /\ upos > 2 /\ us[upos - 1] = "\\"

----------------------------------------------------------------------------
(* Claims about UnquoteStrings *)

\* the elements on which UnquoteString fails
Failing == {i \in 1..Len(elems) : UnquoteString(elems[i]).err # NoError}

\* the lowest index of a non-empty set of indices
Lowest(S) == CHOOSE i \in S : \A j \in S : i <= j

\* the returned string agrees with the UnquoteString state machine's result
\* on the same input (UnquoteSpec), so the function above is the call
UnquoteStringAgrees ==
    upc = "done" => UnquoteString(us) = [res |-> ures, err |-> uerr]

\* C12: UnquoteStrings is atomic: when every element unquotes, the result
\* has the length of elems and its i-th element is UnquoteString(elems[i]);
\* otherwise the call returns the error of the lowest failing element, no
\* result slice, and has not processed the elements after it.
C12_UnquoteStringsAtomic ==
    spc = "done" =>
        IF Failing = {}
        THEN /\ serr = NoError /\ ~sres.isNil
             /\ Len(sres.elems) = Len(elems)
             /\ \A i \in 1..Len(elems) :
                    sres.elems[i] = UnquoteString(elems[i]).res
        ELSE /\ serr = UnquoteString(elems[Lowest(Failing)]).err
             /\ sres = NilSlice
             /\ eidx = Lowest(Failing)
             /\ Len(unquoted) = Lowest(Failing) - 1

\* C12 witness: the second of three elements failed after the first had been
\* unquoted; the third was not reached and nothing was returned.
C12_Witness ==
    /\ spc = "done" /\ serr # NoError /\ sres = NilSlice
    /\ Len(elems) = 3 /\ eidx = 2 /\ Len(unquoted) = 1
    /\ UnquoteString(elems[3]).err # NoError
    /\ UnquoteString(elems[3]).err # serr

----------------------------------------------------------------------------
(* Claims about all three operations *)

\* C13: whenever Fields, UnquoteString or UnquoteStrings returns an error,
\* the result beside it is the zero value of its type (nil slice, empty
\* string, nil slice), whatever had been accumulated before the failure.
C13_NoPartialResult ==
    /\ (fpc = "done" /\ ferr # NoError) => fres = NilSlice
    /\ (upc = "done" /\ uerr # NoError) => ures = <<>>
    /\ (spc = "done" /\ serr # NoError) => sres = NilSlice

\* C13 witness: Fields failed after it had closed a field and collected
\* text for the next one, and returned the nil slice.
C13_Witness ==
    /\ fpc = "done" /\ ferr # NoError
    /\ fields # <<>> /\ sb # <<>>
    /\ fres = NilSlice

----------------------------------------------------------------------------
(* Claims about Deduplicate *)

\* the index of the first occurrence of e in es
FirstIndex(es, e) ==
    CHOOSE i \in 1..Len(es) : es[i] = e /\ \A j \in 1..(i - 1) : es[j] # e

Elements(es) == {es[i] : i \in 1..Len(es)}

\* C14: Deduplicate returns a slice that holds each distinct element of the
\* argument exactly once, ordered by the index of its first occurrence; for
\* an empty or nil argument it returns an empty, non-nil slice.
C14_Deduplicate ==
    dpc = "done" =>
        /\ ~dres.isNil
        /\ Elements(dres.elems) = Elements(ds.elems)
        /\ \A i, j \in 1..Len(dres.elems) :
               i < j =>
                   /\ dres.elems[i] # dres.elems[j]
                   /\ FirstIndex(ds.elems, dres.elems[i])
                          < FirstIndex(ds.elems, dres.elems[j])
        /\ Len(ds.elems) = 0 => dres = Slice(<<>>)

\* C14 witness: duplicates were removed from an argument whose first
\* occurrences are not in ascending order of value.
C14_Witness ==
    /\ dpc = "done"
    /\ 2 <= Len(dres.elems) /\ Len(dres.elems) < Len(ds.elems)
    /\ dres.elems[1] > dres.elems[2]

\* C15: Deduplicate is idempotent: the slice a call returned, which is
\* Deduplicate of its argument, is returned unchanged by Deduplicate.
C15_DeduplicateIdempotent ==
    dpc = "done" =>
        /\ dres = Deduplicate(ds)
        /\ Deduplicate(dres) = dres

\* C15 witness: a call that removed duplicates and kept three elements.
C15_Witness ==
    /\ dpc = "done"
    /\ Len(dres.elems) = 3 /\ Len(ds.elems) > 3
    /\ Deduplicate(dres) = dres

----------------------------------------------------------------------------
(* Claims about Fields and UnquoteString together *)

\* C17: every call of Fields and of UnquoteString terminates: each step
\* either consumes the next code point, moving the index forward by one
\* without ever moving it back, or returns; the index never passes the end of
\* the input, so the call returns after at most one step per code point plus
\* the end-of-scan validation.
C17_Terminates ==
    /\ <>(fpc = "done" \/ upc = "done")
    /\ [](pos <= Len(s) + 1 /\ upos <= Len(us) + 1)
    /\ [][/\ fpc = "loop" =>
                 \/ pos <= Len(s) /\ pos' = pos + 1 /\ fpc' = "loop"
                 \/ pos = Len(s) + 1 /\ pos' = pos /\ fpc' = "done"
          /\ upc = "loop" =>
                 \/ upos <= Len(us) /\ upos' = upos + 1 /\ upc' = "loop"
                 \/ upos' = upos /\ upc' = "done"]_vars

\* C17 witness: a call of Fields on an input of four code points has returned
\* with the index just past the end.
C17_Witness ==
    /\ fpc = "done" /\ Len(s) = 4 /\ pos = 5

----------------------------------------------------------------------------
(* Claims about concurrent callers *)

\* what the call c returns when it runs alone
Alone(c) ==
    IF c.op = "Fields" THEN FieldsCall(c.str, c.sp) ELSE UnquoteString(c.str)

\* the Fields state machine returns what FieldsCall gives (FieldsSpec)
FieldsCallAgrees ==
    fpc = "done" => FieldsCall(s, sep) = [res |-> fres, err |-> ferr]

\* C18: when several callers run Fields or UnquoteString on their own
\* arguments with their scan steps interleaved in any order, each call
\* returns the result and the error of the same call run alone.
C18_CallsIndependent ==
    \A p \in Callers : cpc[p] = "done" => cres[p] = Alone(calls[p])

\* C18 witness: two different calls of Fields on two code points each; the
\* second has run all its steps and returned its fields while the first is in
\* the middle of its scan.
C18_Witness ==
    /\ calls # <<>>
    /\ calls[1].op = "Fields" /\ calls[2].op = "Fields"
    /\ calls[1].str # calls[2].str
    /\ Len(calls[1].str) = 2 /\ Len(calls[2].str) = 2
    /\ cpc[1] = "loop" /\ cpos[1] = 2
    /\ cpc[2] = "done" /\ cres[2].err = NoError
    /\ cres[2] = Alone(calls[2])

====
